---- MODULE Spec2Model ----
(***************************************************************************)
(* The analysis job engine of src/app.py: the /api/analyze handler         *)
(* (analyze_stock) with its executor thread (run_analysis), the global     *)
(* registry analysis_progress, and the read endpoints.                     *)
(*                                                                         *)
(* Flask serves each request on its own thread and nothing locks the       *)
(* registry, so the handler is cut into steps that interleave freely with  *)
(* the steps of other requests and of the executor threads.  A step is one *)
(* store into the registry, together with the statements around it that    *)
(* touch only the handler's own locals; the stores of one progress update  *)
(* (lines 234-255) and of the completion time and duration (341-348) are   *)
(* taken together.  Locals that are no longer read are reset.              *)
(***************************************************************************)
EXTENDS Integers, Sequences, FiniteSets, TLC

(***************************************************************************)
(* Bounds of the model.                                                    *)
(***************************************************************************)
\* Number of /api/analyze requests served (each on its own thread).
NumRequests == 2
\* Last value of the wall clock, in ticks.
MaxClock == 2
\* Resolution of datetime.now(): ticks per second (1000000 in Python).
TicksPerSecond == 2
\* Length of a day in seconds (86400); '%H%M%S' wraps around at this value.
SecondsPerDay == 2
\* Number of polls of the wait loop: total_timeout / check_interval
\* (480 / 15 = 32 in the code).  A heartbeat needs at least 2.
MaxPolls == 1
\* The same where the requests do not work on one another's record or the
\* analyses do not end, which leaves room for more polls.
MaxPollsSolo == 3

\* The longest text, in tokens, given to clean_decision_result.
MaxTextLen == 4
\* The latest instant, in ticks, at which a job id is made: the end of the
\* second day.
MaxInstant == 7

Requests == 1..NumRequests
Symbols == {"AAPL"}
Dates == {"2025-08-27"}

\* app.py:297
check_interval == 15

(***************************************************************************)
(* Python values.  A str is a sequence of tokens; the marker phrase        *)
(* "FINAL TRANSACTION PROPOSAL", ":" and "\n" are tokens of their own.     *)
(***************************************************************************)
PyNone == [kind |-> "none"]
PyStr(s) == [kind |-> "str", text |-> s]
\* An object with a .content attribute (a LangChain message).
PyObj(c) == [kind |-> "obj", content |-> c]
\* A dict; items is a function from the keys present to their values.
PyDict(items) == [kind |-> "dict", items |-> items]
\* A list.
PyList(elems) == [kind |-> "list", elems |-> elems]

\* bool(v): None, "", {} and [] are falsy.
Truthy(v) ==
    CASE v.kind = "none" -> FALSE
      [] v.kind = "str" -> v.text # <<>>
      [] v.kind = "dict" -> DOMAIN v.items # {}
      [] v.kind = "list" -> v.elems # <<>>
      [] OTHER -> TRUE

\* str(v) / f"{v}": the text of a str, a printed form for everything else.
PyToStr(v) ==
    CASE v.kind = "str" -> v.text
      [] v.kind = "none" -> <<"None">>
      [] v.kind = "dict" -> <<"{...}">>
      [] v.kind = "list" -> <<"[...]">>
      [] OTHER -> <<"<object>">>

(***************************************************************************)
(* Result normalisation: clean_analysis_result and clean_decision_result.  *)
(***************************************************************************)
MARKER == "FINAL TRANSACTION PROPOSAL"
Whitespace == {" ", "\n", "\t"}
ReportKeys == <<"market_report", "sentiment_report", "news_report", "fundamentals_report">>

\* key.replace('_', ' ').title()
Title(key) ==
    CASE key = "market_report" -> "Market Report"
      [] key = "sentiment_report" -> "Sentiment Report"
      [] key = "news_report" -> "News Report"
      [] key = "fundamentals_report" -> "Fundamentals Report"

\* s.split(sep): the segments of s between the occurrences of sep.
RECURSIVE Split(_, _)
Split(s, sep) ==
    IF \A i \in 1..Len(s) : s[i] # sep
    THEN <<s>>
    ELSE LET i == CHOOSE k \in 1..Len(s) : s[k] = sep /\ \A j \in 1..(k - 1) : s[j] # sep
         IN  <<SubSeq(s, 1, i - 1)>> \o Split(SubSeq(s, i + 1, Len(s)), sep)

\* s.lstrip(): s without its leading whitespace.
RECURSIVE StripLeading(_)
StripLeading(s) ==
    IF s = <<>> THEN s
    ELSE IF s[1] \in Whitespace THEN StripLeading(Tail(s))
    ELSE s

\* s.strip(): s without its leading and trailing whitespace.
RECURSIVE Strip(_)
Strip(s) ==
    IF s = <<>> THEN s
    ELSE IF s[1] \in Whitespace THEN Strip(Tail(s))
    ELSE IF s[Len(s)] \in Whitespace THEN Strip(SubSeq(s, 1, Len(s) - 1))
    ELSE s

\* MARKER in text
HasMarker(text) == \E i \in 1..Len(text) : text[i] = MARKER

\* The marker scan shared by both branches of clean_decision_result, on the
\* text of a str: the stripped last ':'-segment of the first line that holds
\* the marker, else the text itself.
ExtractDecision(text) ==
    IF HasMarker(text)
    THEN LET lines == Split(text, "\n")
             n == CHOOSE k \in 1..Len(lines) :
                      HasMarker(lines[k]) /\ \A j \in 1..(k - 1) : ~HasMarker(lines[j])
             parts == Split(lines[n], ":")
         IN  Strip(parts[Len(parts)])
    ELSE text

\* "FINAL TRANSACTION PROPOSAL" in content, for a content that is no str: a
\* membership test on a list or on the keys of a dict, a TypeError on
\* anything else.
ContentHoldsMarker(content) ==
    CASE content.kind = "list" ->
             \E i \in 1..Len(content.elems) : content.elems[i] = PyStr(<<MARKER>>)
      [] content.kind = "dict" -> MARKER \in DOMAIN content.items
      [] OTHER -> FALSE

clean_decision_result(decision) ==
    IF ~Truthy(decision) THEN PyNone
    ELSE CASE decision.kind = "obj" ->
                 \* On a str the test is a substring test.  A list or dict that
                 \* holds the marker has no split(): AttributeError; None and
                 \* objects do not support "in": TypeError.  The except clause
                 \* turns both into str(decision).
                 (CASE decision.content.kind = "str" ->
                           PyStr(ExtractDecision(decision.content.text))
                    [] decision.content.kind \in {"list", "dict"} ->
                           IF ContentHoldsMarker(decision.content)
                           THEN PyStr(PyToStr(decision))
                           ELSE decision.content
                    [] OTHER -> PyStr(PyToStr(decision)))
           [] decision.kind = "str" -> PyStr(ExtractDecision(decision.text))
           [] OTHER -> PyStr(PyToStr(decision))

\* The content of each message that has one (an attribute or a dict key).
RECURSIVE MessageContents(_)
MessageContents(msgs) ==
    IF msgs = <<>> THEN <<>>
    ELSE LET m == Head(msgs)
             rest == MessageContents(Tail(msgs))
         IN  CASE m.kind = "obj" -> <<m.content>> \o rest
               [] m.kind = "dict" /\ "content" \in DOMAIN m.items -> <<m.items["content"]>> \o rest
               [] OTHER -> rest

\* The report sections present and truthy, each under its heading.
RECURSIVE ReportSections(_, _)
ReportSections(items, keys) ==
    IF keys = <<>> THEN <<>>
    ELSE LET key == Head(keys)
             rest == ReportSections(items, Tail(keys))
         IN  IF key \in DOMAIN items /\ Truthy(items[key])
             THEN <<PyStr(<<"\n", "\n", "## ", Title(key), "\n">> \o PyToStr(items[key]))>> \o rest
             ELSE rest

DebateSection(items) ==
    IF "investment_debate_state" \in DOMAIN items /\ Truthy(items["investment_debate_state"])
    THEN LET debate == items["investment_debate_state"]
         IN  IF debate.kind = "dict" /\ "judge_decision" \in DOMAIN debate.items
             THEN <<PyStr(<<"\n", "\n", "## Investment Decision", "\n">>
                          \o PyToStr(debate.items["judge_decision"]))>>
             ELSE <<>>
    ELSE <<>>

\* '\n'.join(parts) on a list of str.
RECURSIVE Join(_)
Join(parts) ==
    IF parts = <<>> THEN <<>>
    ELSE IF Len(parts) = 1 THEN parts[1].text
    ELSE parts[1].text \o <<"\n">> \o Join(Tail(parts))

\* An exception that leaves a function, in place of a return value.
Raised == [kind |-> "raised"]

\* clean_analysis_result as it would be without its except clause.
clean_analysis_result_unguarded(result) ==
    IF ~Truthy(result) THEN PyNone
    ELSE CASE result.kind = "dict" /\ "messages" \in DOMAIN result.items ->
                 LET msgs == result.items["messages"]
                     \* for msg in result['messages']: the characters of a
                     \* str and the keys of a dict have no content; an object
                     \* is not iterable.
                     iterable == msgs.kind # "obj"
                     contents == IF Truthy(msgs) /\ msgs.kind = "list"
                                 THEN MessageContents(msgs.elems) ELSE <<>>
                     clean_text == contents \o ReportSections(result.items, ReportKeys)
                                            \o DebateSection(result.items)
                 IN  IF /\ Truthy(msgs) => iterable
                        /\ \A i \in 1..Len(clean_text) : clean_text[i].kind = "str"
                     THEN PyStr(Join(clean_text))
                     ELSE Raised
           [] result.kind = "str" -> result
           [] result.kind = "obj" -> result.content
           [] OTHER -> PyStr(PyToStr(result))

\* Lines 33-78.
clean_analysis_result(result) ==
    IF ~Truthy(result) THEN PyNone
    ELSE CASE result.kind = "dict" /\ "messages" \in DOMAIN result.items ->
                 LET msgs == result.items["messages"]
                     \* for msg in result['messages']: the characters of a
                     \* str and the keys of a dict have no content; an object
                     \* is not iterable.
                     iterable == msgs.kind # "obj"
                     contents == IF Truthy(msgs) /\ msgs.kind = "list"
                                 THEN MessageContents(msgs.elems) ELSE <<>>
                     clean_text == contents \o ReportSections(result.items, ReportKeys)
                                            \o DebateSection(result.items)
                 IN  \* The loop raises TypeError on messages that cannot be
                     \* iterated, join on a part that is no str; the except
                     \* clause then returns str(result).
                     IF /\ Truthy(msgs) => iterable
                        /\ \A i \in 1..Len(clean_text) : clean_text[i].kind = "str"
                     THEN PyStr(Join(clean_text))
                     ELSE PyStr(PyToStr(result))
           [] result.kind = "str" -> result
           [] result.kind = "obj" -> result.content
           [] OTHER -> PyStr(PyToStr(result))

(***************************************************************************)
(* Time.  A datetime is a number of ticks since the process started.       *)
(***************************************************************************)
\* datetime.strftime('%H%M%S'): the second of the day; the day is dropped.
HHMMSS(t) == (t \div TicksPerSecond) % SecondsPerDay

\* datetime.isoformat(): the seconds, and the fraction only if it is not 0.
isoformat(t) ==
    IF t % TicksPerSecond = 0
    THEN <<t \div TicksPerSecond>>
    ELSE <<t \div TicksPerSecond, t % TicksPerSecond>>

\* datetime.fromisoformat()
fromisoformat(s) == s[1] * TicksPerSecond + (IF Len(s) > 1 THEN s[2] ELSE 0)

\* f"{int(duration_seconds//60)}m {int(duration_seconds%60)}s", on a
\* duration held in ticks.
duration_formatted(ticks) ==
    <<(ticks \div TicksPerSecond) \div 60, (ticks \div TicksPerSecond) % 60>>

(***************************************************************************)
(* Dicts and job records.                                                  *)
(***************************************************************************)
\* d[k] = v on a dict: k is added if absent, replaced if present.
SetItem(d, k, v) == [x \in (DOMAIN d) \cup {k} |-> IF x = k THEN v ELSE d[x]]

\* The keys of a dict after d[k] = v: a dict keeps its keys in the order in
\* which they were first set, and a key that is set again keeps its place.
KeysAfterSetItem(keys, k) ==
    IF \E i \in 1..Len(keys) : keys[i] = k THEN keys ELSE Append(keys, k)

\* One entry of a record's "messages" list.
Msg(text, sym, n) == [text |-> text, symbol |-> sym, elapsed |-> n]

\* f"{symbol}_{date}_{datetime.now().strftime('%H%M%S')}"
AnalysisId(sym, d, now) == <<sym, d, HHMMSS(now)>>

\* The dict literal of lines 222-231.
NewRecord(sym, d, now) ==
    [symbol |-> sym,
     date |-> d,
     status |-> "starting",
     progress |-> 0,
     current_agent |-> "Initializing",
     agents_completed |-> <<>>,
     started_at |-> isoformat(now),
     messages |-> <<Msg("Starting multi-agent analysis...", "", 0)>>]

\* The stores of lines 234-255, in program order: <<key, value>>, where a
\* store into "messages" appends the value.  They come in four groups, one
\* per progress update; the handler sleeps between the groups (lines 247 and
\* 252) and each group is taken as one step.
ProgressUpdates(sym) ==
    << << <<"status", "analyzing">>,
          <<"progress", 10>>,
          <<"current_agent", "Multi-Agent System">>,
          <<"messages", Msg("Initializing analysis for", sym, 0)>> >>,
       << <<"progress", 25>>,
          <<"current_agent", "Fundamental Analyst">>,
          <<"messages", Msg("Fundamental analyst working...", "", 0)>> >>,
       << <<"progress", 40>>,
          <<"current_agent", "Technical Analyst">>,
          <<"messages", Msg("Technical analysis in progress...", "", 0)>> >>,
       << <<"progress", 60>>,
          <<"current_agent", "Sentiment Analyst">>,
          <<"messages", Msg("Sentiment analysis running...", "", 0)>> >> >>

\* A record after the stores of one group.
RECURSIVE ApplyStores(_, _)
ApplyStores(rec, stores) ==
    IF stores = <<>> THEN rec
    ELSE LET st == Head(stores)
             next == IF st[1] = "messages"
                     THEN SetItem(rec, "messages", Append(rec["messages"], st[2]))
                     ELSE SetItem(rec, st[1], st[2])
         IN  ApplyStores(next, Tail(stores))

\* The values os.getenv("OPENAI_API_KEY", "") can have.
ApiKeys == {"", "test_key_demo_only", "sk-live"}

\* What ta_graph.propagate can return: (result, decision).
PropagateReturns ==
    { <<PyDict([messages |-> PyList(<<PyObj(PyStr(<<"analyst note">>))>>),
                market_report |-> PyStr(<<"market up">>)]),
        PyStr(<<"Summary", "\n", MARKER, ":", " ", "SELL", " ">>)>> }

\* str(e) of what ta_graph.propagate can raise.
PropagateErrors == { <<"rate limit exceeded">> }

(***************************************************************************)
(* State.                                                                  *)
(***************************************************************************)
VARIABLES
    clock,              \* datetime.now()
    ta_graph,           \* app.py:28, TRUE once initialised
    openai_key,         \* os.getenv("OPENAI_API_KEY", "")
    analysis_progress,  \* app.py:31, job id -> record
    key_order,          \* the keys of analysis_progress in the order a dict keeps
    pc,                 \* per request: the statement it is about to execute
    local,              \* per request: the handler's local variables
    analysis_thread,    \* per request: state of its executor thread
    result_queue,       \* per request: its queue.Queue
    total_timeout,      \* app.py:296 (480 in the code), fixed from the start
    history_request,    \* a request of /api/history served beside the others
    call                \* a call of one of the pure functions

vars == <<clock, ta_graph, openai_key, analysis_progress, key_order, pc, local,
          analysis_thread, result_queue, total_timeout, history_request, call>>

\* What no step of analyze_stock or of run_analysis touches.
elsewhere == <<total_timeout, history_request, call>>

\* No request of /api/history under way.
NoReply == [code |-> 0, error |-> "", total_count |-> 0, analyses |-> <<>>, is_sample |-> FALSE]
NoHistoryRequest ==
    [pc |-> "idle", used |-> 0, pos |-> 0, completed_analyses |-> <<>>, reply |-> NoReply]

\* No call made.
NoCall == [fn |-> "", arg |-> <<>>, ret |-> <<>>]

NoId == <<"", "", 0>>
NoResponse ==
    [code |-> 0, error |-> "", message |-> <<>>, analysis_id |-> NoId,
     status |-> "", decision |-> PyNone, result |-> PyNone]

\* The JSON body and status code a request returns.
Response(code, error, message, id, status, decision, result) ==
    [code |-> code, error |-> error, message |-> message, analysis_id |-> id,
     status |-> status, decision |-> decision, result |-> result]

InitLocal ==
    [symbol |-> "", date |-> "", analysis_id |-> NoId, step |-> 1, elapsed |-> 0,
     status |-> "", result |-> PyNone, decision |-> PyNone,
     response |-> NoResponse]

\* The state after start-up, with the budget of the wait loop.
Start(budget) ==
    /\ clock = 0
    /\ ta_graph \in BOOLEAN
    /\ openai_key \in ApiKeys
    /\ analysis_progress = <<>>
    /\ key_order = <<>>
    /\ pc = [t \in Requests |-> "idle"]
    /\ local = [t \in Requests |-> InitLocal]
    /\ analysis_thread = [t \in Requests |-> "unstarted"]
    /\ result_queue = [t \in Requests |-> <<>>]
    /\ total_timeout = budget
    /\ history_request = NoHistoryRequest
    /\ call = NoCall

Init == Start(MaxPolls * check_interval)

\* analysis_thread.is_alive()
is_alive(t) == analysis_thread[t] \in {"running", "published"}

\* analysis_progress[id][key] = value
Store(id, key, value) ==
    analysis_progress' = [analysis_progress EXCEPT ![id] = SetItem(@, key, value)]

\* analysis_progress[id]["messages"].append(m)
AppendMessage(id, m) ==
    analysis_progress' =
        [analysis_progress EXCEPT ![id] = SetItem(@, "messages", Append(@["messages"], m))]

\* The handler returns: its response is fixed and the request is over.  Of
\* its locals only the inputs and the job id are kept, for reference.
Return(t, resp) ==
    /\ pc' = [pc EXCEPT ![t] = "done"]
    /\ local' = [local EXCEPT ![t] = [InitLocal EXCEPT !.symbol = local[t].symbol,
                                                       !.date = local[t].date,
                                                       !.analysis_id = local[t].analysis_id,
                                                       !.response = resp]]

Goto(t, label) == pc' = [pc EXCEPT ![t] = label]

(***************************************************************************)
(* analyze_stock, one action per statement that touches shared state.      *)
(***************************************************************************)
\* Requests are numbered in the order in which they arrive.
Arrived(t) == \A u \in Requests : u < t => pc[u] # "idle"

\* Lines 197-210: ta_graph is None and initialize_trading_agents() fails.
Unavailable(t) ==
    /\ pc[t] = "idle"
    /\ Arrived(t)
    /\ ~ta_graph
    /\ Return(t, Response(503, "TradingAgents initialization failed", <<>>, NoId,
                          "", PyNone, PyNone))
    /\ UNCHANGED <<elsewhere, clock, key_order, ta_graph, openai_key, analysis_progress,
                   analysis_thread, result_queue>>

\* datetime.now(): the clock is looked at only here, so time passes here;
\* any amount of it may have gone by since the last look.
Now(now) ==
    /\ now \in clock..MaxClock
    /\ clock' = now

\* keys without those that are not in keep.
RECURSIVE KeepKeys(_, _)
KeepKeys(keys, keep) ==
    IF keys = <<>> THEN <<>>
    ELSE IF Head(keys) \in keep THEN <<Head(keys)>> \o KeepKeys(Tail(keys), keep)
    ELSE KeepKeys(Tail(keys), keep)

\* Submit as it would be if a submission cleared the registry of the records
\* of requests that have returned.
SubmitEvicting(t, sym, d) ==
    /\ pc[t] = "idle"
    /\ Arrived(t)
    /\ ta_graph' = TRUE
    /\ \E now \in 0..MaxClock :
          /\ Now(now)
          /\ LET id == AnalysisId(sym, d, now)
                 keep == {k \in DOMAIN analysis_progress :
                             \E u \in Requests : local[u].analysis_id = k /\ pc[u] # "done"}
                 kept == [k \in keep |-> analysis_progress[k]]
             IN  /\ analysis_progress' = SetItem(kept, id, NewRecord(sym, d, now))
                 /\ key_order' = KeysAfterSetItem(KeepKeys(key_order, keep), id)
                 /\ local' = [local EXCEPT ![t].symbol = sym, ![t].date = d,
                                           ![t].analysis_id = id, ![t].step = 1]
    /\ Goto(t, "progress")
    /\ UNCHANGED <<elsewhere, openai_key, analysis_thread, result_queue>>

\* Lines 197-231: ta_graph is there (or is initialised now); the job id is
\* built and a fresh record is stored under it, whatever was there before.
Submit(t, sym, d) ==
    /\ pc[t] = "idle"
    /\ Arrived(t)
    /\ ta_graph' = TRUE
    /\ \E now \in 0..MaxClock :
          /\ Now(now)
          /\ LET id == AnalysisId(sym, d, now)
             IN  /\ analysis_progress' = SetItem(analysis_progress, id, NewRecord(sym, d, now))
                 /\ key_order' = KeysAfterSetItem(key_order, id)
                 /\ local' = [local EXCEPT ![t].symbol = sym, ![t].date = d,
                                           ![t].analysis_id = id, ![t].step = 1]
    /\ Goto(t, "progress")
    /\ UNCHANGED <<elsewhere, openai_key, analysis_thread, result_queue>>

\* ProgressStep as it would be if the stage were stored on every record of
\* the registry.
ProgressStepAll(t) ==
    /\ pc[t] = "progress"
    /\ LET updates == ProgressUpdates(local[t].symbol)
       IN  /\ analysis_progress' =
                 [id \in DOMAIN analysis_progress |->
                     ApplyStores(analysis_progress[id], updates[local[t].step])]
           /\ IF local[t].step < Len(updates)
              THEN /\ local' = [local EXCEPT ![t].step = @ + 1]
                   /\ UNCHANGED pc
              ELSE /\ Goto(t, "check_key")
                   /\ local' = [local EXCEPT ![t].step = 1]
    /\ UNCHANGED <<elsewhere, clock, key_order, ta_graph, openai_key, analysis_thread, result_queue>>

\* Lines 234-255: the next group of ProgressUpdates.
ProgressStep(t) ==
    /\ pc[t] = "progress"
    /\ LET updates == ProgressUpdates(local[t].symbol)
           id == local[t].analysis_id
       IN  /\ analysis_progress' =
                 [analysis_progress EXCEPT ![id] = ApplyStores(@, updates[local[t].step])]
           /\ IF local[t].step < Len(updates)
              THEN /\ local' = [local EXCEPT ![t].step = @ + 1]
                   /\ UNCHANGED pc
              ELSE /\ Goto(t, "check_key")
                   /\ local' = [local EXCEPT ![t].step = 1]
    /\ UNCHANGED <<elsewhere, clock, key_order, ta_graph, openai_key, analysis_thread, result_queue>>

\* CheckKey as it would be if only a missing key were refused and the
\* placeholder passed.
CheckKeyEmptyOnly(t) ==
    /\ pc[t] = "check_key"
    /\ IF openai_key = ""
       THEN /\ Goto(t, "key_failed")
            /\ UNCHANGED <<local, analysis_thread, result_queue>>
       ELSE /\ analysis_thread' = [analysis_thread EXCEPT ![t] = "running"]
            /\ result_queue' = [result_queue EXCEPT ![t] = <<>>]
            /\ local' = [local EXCEPT ![t].elapsed = 0]
            /\ Goto(t, "loop")
    /\ UNCHANGED <<elsewhere, clock, key_order, ta_graph, openai_key, analysis_progress>>

\* Lines 258-259 and 274-292: with a usable key the queue is created and
\* the executor thread started.
CheckKey(t) ==
    /\ pc[t] = "check_key"
    /\ IF openai_key = "" \/ openai_key = "test_key_demo_only"
       THEN /\ Goto(t, "key_failed")
            /\ UNCHANGED <<local, analysis_thread, result_queue>>
       ELSE /\ analysis_thread' = [analysis_thread EXCEPT ![t] = "running"]
            /\ result_queue' = [result_queue EXCEPT ![t] = <<>>]
            /\ local' = [local EXCEPT ![t].elapsed = 0]
            /\ Goto(t, "loop")
    /\ UNCHANGED <<elsewhere, clock, key_order, ta_graph, openai_key, analysis_progress>>

\* Line 260.
KeyFailedStatus(t) ==
    /\ pc[t] = "key_failed"
    /\ Store(local[t].analysis_id, "status", "failed")
    /\ Goto(t, "key_failed_msg")
    /\ UNCHANGED <<elsewhere, clock, key_order, ta_graph, openai_key, local, analysis_thread, result_queue>>

\* Lines 261-268.
KeyFailedReturn(t) ==
    /\ pc[t] = "key_failed_msg"
    /\ AppendMessage(local[t].analysis_id, Msg("Invalid OpenAI API key", "", 0))
    /\ Return(t, Response(400, "Configuration error", <<"OpenAI API key not configured properly">>,
                          local[t].analysis_id, "", PyNone, PyNone))
    /\ UNCHANGED <<elsewhere, clock, key_order, ta_graph, openai_key, analysis_thread, result_queue>>

\* Poll as it would be if the loop went on for as long as the thread is
\* alive, whatever the time spent.
PollUnbudgeted(t) ==
    /\ pc[t] = "loop"
    /\ is_alive(t)
    /\ LET elapsed == local[t].elapsed + check_interval
       IN  /\ local' = [local EXCEPT ![t].elapsed = elapsed]
           /\ IF is_alive(t) /\ elapsed < total_timeout
              THEN AppendMessage(local[t].analysis_id,
                                 Msg("Analysis still running...", "", elapsed))
              ELSE UNCHANGED analysis_progress
    /\ UNCHANGED <<elsewhere, clock, key_order, ta_graph, openai_key, pc, analysis_thread, result_queue>>

\* Lines 300-307, one turn of the wait loop: join returns when the thread
\* has ended or after check_interval seconds, and elapsed counts the interval
\* either way; if the thread is alive and budget is left, a heartbeat is
\* appended.
Poll(t) ==
    /\ pc[t] = "loop"
    /\ local[t].elapsed < total_timeout /\ is_alive(t)
    /\ LET elapsed == local[t].elapsed + check_interval
       IN  /\ local' = [local EXCEPT ![t].elapsed = elapsed]
           /\ IF is_alive(t) /\ elapsed < total_timeout
              THEN AppendMessage(local[t].analysis_id,
                                 Msg("Analysis still running...", "", elapsed))
              ELSE UNCHANGED analysis_progress
    /\ UNCHANGED <<elsewhere, clock, key_order, ta_graph, openai_key, pc, analysis_thread, result_queue>>

\* Line 300, the loop is left: the budget is used up or the thread has ended.
LoopExit(t) ==
    /\ pc[t] = "loop"
    /\ ~(local[t].elapsed < total_timeout /\ is_alive(t))
    /\ local' = [local EXCEPT ![t].elapsed = 0]
    /\ Goto(t, "after_loop")
    /\ UNCHANGED <<elsewhere, clock, key_order, ta_graph, openai_key, analysis_progress,
                   analysis_thread, result_queue>>

\* Lines 309 and 322-326 with 370-377.  The thread's liveness, not the
\* queue, decides a timeout.  Of an ended thread the queue is read with
\* get_nowait(): an 'error' entry is re-raised and caught by the handler's
\* except clause, which only builds the response; queue.Empty leads to lines
\* 327-335.
AfterLoop(t) ==
    /\ pc[t] = "after_loop"
    /\ IF is_alive(t)
       THEN /\ Goto(t, "timeout")
            /\ UNCHANGED <<local, result_queue>>
       ELSE IF result_queue[t] = <<>>
       THEN /\ Goto(t, "no_result")
            /\ UNCHANGED <<local, result_queue>>
       ELSE LET item == Head(result_queue[t])
            IN  /\ result_queue' = [result_queue EXCEPT ![t] = Tail(@)]
                /\ IF item.status = "error"
                   THEN Return(t, Response(500, "Analysis failed", item.result.text, NoId,
                                           "", PyNone, PyNone))
                   ELSE /\ local' = [local EXCEPT ![t].status = item.status,
                                                  ![t].result = item.result,
                                                  ![t].decision = item.decision]
                        /\ Goto(t, "completed")
    /\ UNCHANGED <<elsewhere, clock, key_order, ta_graph, openai_key, analysis_progress, analysis_thread>>

\* Line 311.
TimeoutStatus(t) ==
    /\ pc[t] = "timeout"
    /\ Store(local[t].analysis_id, "status", "timeout")
    /\ Goto(t, "timeout_msg")
    /\ UNCHANGED <<elsewhere, clock, key_order, ta_graph, openai_key, local, analysis_thread, result_queue>>

\* TimeoutReturn as it would be if the timeout branch did not return and the
\* handler went on to read the queue.
TimeoutFallThrough(t) ==
    /\ pc[t] = "timeout_msg"
    /\ AppendMessage(local[t].analysis_id, Msg("Analysis timed out after 8 minutes", "", 0))
    /\ Goto(t, "no_result")
    /\ UNCHANGED <<elsewhere, clock, key_order, ta_graph, openai_key, local, analysis_thread, result_queue>>

\* Lines 312-319.
TimeoutReturn(t) ==
    /\ pc[t] = "timeout_msg"
    /\ AppendMessage(local[t].analysis_id, Msg("Analysis timed out after 8 minutes", "", 0))
    /\ Return(t, Response(408, "Analysis timeout", <<"Analysis took too long and was cancelled">>,
                          local[t].analysis_id, "", PyNone, PyNone))
    /\ UNCHANGED <<elsewhere, clock, key_order, ta_graph, openai_key, analysis_thread, result_queue>>

\* Line 327.
NoResultStatus(t) ==
    /\ pc[t] = "no_result"
    /\ Store(local[t].analysis_id, "status", "failed")
    /\ Goto(t, "no_result_msg")
    /\ UNCHANGED <<elsewhere, clock, key_order, ta_graph, openai_key, local, analysis_thread, result_queue>>

\* Lines 328-335.
NoResultReturn(t) ==
    /\ pc[t] = "no_result_msg"
    /\ AppendMessage(local[t].analysis_id, Msg("Analysis failed unexpectedly", "", 0))
    /\ Return(t, Response(500, "Analysis failed", <<"Analysis completed but no result was returned">>,
                          local[t].analysis_id, "", PyNone, PyNone))
    /\ UNCHANGED <<elsewhere, clock, key_order, ta_graph, openai_key, analysis_thread, result_queue>>

\* Line 338.
CompletedStatus(t) ==
    /\ pc[t] = "completed"
    /\ Store(local[t].analysis_id, "status", "completed")
    /\ Goto(t, "completed_progress")
    /\ UNCHANGED <<elsewhere, clock, key_order, ta_graph, openai_key, local, analysis_thread, result_queue>>

\* Lines 339-340.
CompletedProgress(t) ==
    /\ pc[t] = "completed_progress"
    /\ analysis_progress' =
           [analysis_progress EXCEPT ![local[t].analysis_id] =
               SetItem(SetItem(@, "progress", 100), "current_agent", "Completed")]
    /\ Goto(t, "completed_at")
    /\ UNCHANGED <<elsewhere, clock, key_order, ta_graph, openai_key, local, analysis_thread, result_queue>>

\* Lines 341-348: completed_time is taken and stored; started_at is read
\* back from the record under the job id and the difference stored.
CompletedAt(t) ==
    /\ pc[t] = "completed_at"
    /\ \E completed_time \in 0..MaxClock :
          /\ Now(completed_time)
          /\ LET id == local[t].analysis_id
                 started_time == fromisoformat(analysis_progress[id]["started_at"])
                 duration_seconds == completed_time - started_time
             IN  analysis_progress' =
                     [analysis_progress EXCEPT ![id] =
                         SetItem(SetItem(SetItem(@, "completed_at", isoformat(completed_time)),
                                         "duration_seconds", duration_seconds),
                                 "duration_formatted", duration_formatted(duration_seconds))]
    /\ Goto(t, "completed_msg")
    /\ UNCHANGED <<elsewhere, key_order, ta_graph, openai_key, local, analysis_thread, result_queue>>

\* Line 350.
CompletedMessage(t) ==
    /\ pc[t] = "completed_msg"
    /\ AppendMessage(local[t].analysis_id, Msg("Analysis completed successfully!", "", 0))
    /\ Goto(t, "store_result")
    /\ UNCHANGED <<elsewhere, clock, key_order, ta_graph, openai_key, local, analysis_thread, result_queue>>

\* Lines 353-357.
StoreResult(t) ==
    /\ pc[t] = "store_result"
    /\ Store(local[t].analysis_id, "result", clean_analysis_result(local[t].result))
    /\ Goto(t, "store_decision")
    /\ UNCHANGED <<elsewhere, clock, key_order, ta_graph, openai_key, local, analysis_thread, result_queue>>

\* Lines 358-368.
StoreDecisionReturn(t) ==
    /\ pc[t] = "store_decision"
    /\ Store(local[t].analysis_id, "decision", clean_decision_result(local[t].decision))
    /\ Return(t, Response(200, "", <<>>, local[t].analysis_id, "completed",
                          clean_decision_result(local[t].decision),
                          clean_analysis_result(local[t].result)))
    /\ UNCHANGED <<elsewhere, clock, key_order, ta_graph, openai_key, analysis_thread, result_queue>>

(***************************************************************************)
(* run_analysis, the executor thread of request t (lines 277-287).         *)
(***************************************************************************)
\* RunAnalysisSuccess as it would be if the executor also wrote its outcome
\* to the job record.
RunAnalysisSuccessStoring(t, ret) ==
    /\ analysis_thread[t] = "running"
    /\ result_queue' = [result_queue EXCEPT ![t] =
           Append(@, [status |-> "success", result |-> ret[1], decision |-> ret[2]])]
    /\ analysis_thread' = [analysis_thread EXCEPT ![t] = "published"]
    /\ Store(local[t].analysis_id, "status", "completed")
    /\ UNCHANGED <<elsewhere, clock, key_order, ta_graph, openai_key, pc, local>>

\* RunAnalysisSuccess as it would be if a statement after the put raised
\* inside the try block, so that the except clause put its error as well.
RunAnalysisSuccessThenError(t, ret) ==
    /\ analysis_thread[t] = "running"
    /\ result_queue' = [result_queue EXCEPT ![t] =
           @ \o <<[status |-> "success", result |-> ret[1], decision |-> ret[2]],
                  [status |-> "error", result |-> PyStr(<<"logging failed">>),
                   decision |-> PyNone]>>]
    /\ analysis_thread' = [analysis_thread EXCEPT ![t] = "published"]
    /\ UNCHANGED <<elsewhere, clock, key_order, ta_graph, openai_key, analysis_progress, pc, local>>

\* Lines 281-284: propagate returns and the outcome is put into the queue.
RunAnalysisSuccess(t, ret) ==
    /\ analysis_thread[t] = "running"
    /\ result_queue' = [result_queue EXCEPT ![t] =
           Append(@, [status |-> "success", result |-> ret[1], decision |-> ret[2]])]
    /\ analysis_thread' = [analysis_thread EXCEPT ![t] = "published"]
    /\ UNCHANGED <<elsewhere, clock, key_order, ta_graph, openai_key, analysis_progress, pc, local>>

\* RunAnalysisError as it would be if the except clause of run_analysis
\* marked the record failed itself.
RunAnalysisErrorStoring(t, e) ==
    /\ analysis_thread[t] = "running"
    /\ result_queue' = [result_queue EXCEPT ![t] =
           Append(@, [status |-> "error", result |-> PyStr(e), decision |-> PyNone])]
    /\ analysis_thread' = [analysis_thread EXCEPT ![t] = "published"]
    /\ Store(local[t].analysis_id, "status", "failed")
    /\ UNCHANGED <<elsewhere, clock, key_order, ta_graph, openai_key, pc, local>>

\* Lines 285-287: propagate raises an Exception.
RunAnalysisError(t, e) ==
    /\ analysis_thread[t] = "running"
    /\ result_queue' = [result_queue EXCEPT ![t] =
           Append(@, [status |-> "error", result |-> PyStr(e), decision |-> PyNone])]
    /\ analysis_thread' = [analysis_thread EXCEPT ![t] = "published"]
    /\ UNCHANGED <<elsewhere, clock, key_order, ta_graph, openai_key, analysis_progress, pc, local>>

\* propagate raises what 'except Exception' does not catch (SystemExit, a
\* KeyboardInterrupt): the thread ends with nothing put.
RunAnalysisAbort(t) ==
    /\ analysis_thread[t] = "running"
    /\ analysis_thread' = [analysis_thread EXCEPT ![t] = "finished"]
    /\ UNCHANGED <<elsewhere, clock, key_order, ta_graph, openai_key, analysis_progress, pc, local, result_queue>>

\* run_analysis returns after its put and the thread ends: only from here
\* on is is_alive() false.
ThreadExit(t) ==
    /\ analysis_thread[t] = "published"
    /\ analysis_thread' = [analysis_thread EXCEPT ![t] = "finished"]
    /\ UNCHANGED <<elsewhere, clock, key_order, ta_graph, openai_key, analysis_progress, pc, local, result_queue>>

(***************************************************************************)
(* The read endpoints.                                                     *)
(***************************************************************************)
\* The job ids a client can ask for.
JobIds == {AnalysisId(sym, d, now) : sym \in Symbols, d \in Dates, now \in 0..MaxClock}

\* get_analysis_progress, lines 379-388: the reply to a poll of job id, a
\* copy of the record as it is at this moment.
get_analysis_progress(id) ==
    IF id \notin DOMAIN analysis_progress
    THEN [code |-> 404, error |-> "Analysis not found", analysis_id |-> id]
    ELSE [code |-> 200, analysis_id |-> id, body |-> analysis_progress[id]]

\* QueryProgress as it would be if the registry made a record for a key that
\* is looked up and not there (a defaultdict, a setdefault).
QueryProgressCreating(id) ==
    /\ get_analysis_progress(id).code \in {200, 404}
    /\ IF id \in DOMAIN analysis_progress
       THEN UNCHANGED <<analysis_progress, key_order>>
       ELSE /\ analysis_progress' = SetItem(analysis_progress, id, NewRecord(id[1], id[2], clock))
            /\ key_order' = KeysAfterSetItem(key_order, id)
    /\ UNCHANGED <<elsewhere, clock, ta_graph, openai_key, pc, local, analysis_thread, result_queue>>

\* A client polls job id; the endpoint only reads.
QueryProgress(id) ==
    /\ get_analysis_progress(id).code \in {200, 404}
    /\ UNCHANGED vars

\* list_active_analyses, lines 390-397: the keys as a list, their number and
\* the registry itself.
list_active_analyses ==
    [active_analyses |-> key_order,
     total_count |-> Cardinality(DOMAIN analysis_progress),
     analyses |-> analysis_progress]

\* A client asks for all analyses; the endpoint only reads.
QueryAll ==
    /\ list_active_analyses.total_count >= 0
    /\ UNCHANGED vars

\* app.py:485, the slice [:50]
HistoryLimit == 50

\* data.get(key, default)
DictGet(d, k, default) == IF k \in DOMAIN d THEN d[k] ELSE default

\* data.get(key) on a timestamp: None is written <<>>.
NoTime == <<>>

\* Lines 447-457: the entry of one completed record.
HistoryEntry(id, data) ==
    [analysis_id |-> id,
     symbol |-> DictGet(data, "symbol", ""),
     date |-> DictGet(data, "date", ""),
     decision |-> DictGet(data, "decision", PyStr(<<"Unknown">>)),
     started_at |-> DictGet(data, "started_at", NoTime),
     completed_at |-> DictGet(data, "completed_at", NoTime),
     duration_seconds |-> DictGet(data, "duration_seconds", 0),
     duration_formatted |-> DictGet(data, "duration_formatted", <<"Unknown">>),
     messages |-> DictGet(data, "messages", <<>>)]

\* Lines 445-457: the entries of the records with status 'completed', in the
\* order in which the dict is iterated.
RECURSIVE CompletedAnalyses(_)
CompletedAnalyses(keys) ==
    IF keys = <<>> THEN <<>>
    ELSE LET id == Head(keys)
             data == analysis_progress[id]
             rest == CompletedAnalyses(Tail(keys))
         IN  IF DictGet(data, "status", "") = "completed"
             THEN <<HistoryEntry(id, data)>> \o rest
             ELSE rest

\* a < b on two str: the first place where they differ decides, and a proper
\* prefix is the smaller one.
RECURSIVE StrLess(_, _)
StrLess(a, b) ==
    IF b = <<>> THEN FALSE
    ELSE IF a = <<>> THEN TRUE
    ELSE IF Head(a) # Head(b) THEN Head(a) < Head(b)
    ELSE StrLess(Tail(a), Tail(b))

\* Line 460: the sort key is x.get('completed_at', ''), and the key is always
\* there, so a record without completed_at has the key None.  Sorting two
\* or more entries compares keys, and None compares with nothing: TypeError.
SortRaises(entries) ==
    /\ Len(entries) >= 2
    /\ \E i \in 1..Len(entries) : entries[i].completed_at = NoTime

\* Line 460: list.sort(key=..., reverse=True) is stable: the largest key
\* first, entries with equal keys in the order they had.
RECURSIVE SortByCompletedAtDesc(_)
SortByCompletedAtDesc(entries) ==
    IF entries = <<>> THEN <<>>
    ELSE LET n == Len(entries)
             x == entries[n]
             front == SortByCompletedAtDesc(SubSeq(entries, 1, n - 1))
             smaller == {i \in 1..Len(front) : StrLess(front[i].completed_at, x.completed_at)}
             at == IF smaller = {} THEN Len(front) + 1
                   ELSE CHOOSE i \in smaller : \A j \in smaller : i <= j
         IN  SubSeq(front, 1, at - 1) \o <<x>> \o SubSeq(front, at, Len(front))

\* Lines 464-476.
sample_analyses ==
    << [analysis_id |-> <<"sample_001">>,
        symbol |-> "AAPL",
        date |-> "2025-08-27",
        decision |-> PyStr(<<"BUY">>),
        started_at |-> <<"2025-08-27T10:00:00">>,
        completed_at |-> <<"2025-08-27T10:05:00">>,
        duration_seconds |-> 300,
        duration_formatted |-> <<5, 0>>,
        messages |-> <<"Sample analysis - run a real analysis to see your history">>] >>

\* analysis_history as it would be if the sample were returned without its
\* 'is_sample' key.
analysis_history_unflagged ==
    LET completed_analyses == CompletedAnalyses(key_order)
    IN  IF SortRaises(completed_analyses)
        THEN [code |-> 500, error |-> "Failed to retrieve history", total_count |-> 0,
              analyses |-> <<>>, is_sample |-> FALSE]
        ELSE IF completed_analyses = <<>>
        THEN [code |-> 200, error |-> "", total_count |-> Len(sample_analyses),
              analyses |-> sample_analyses, is_sample |-> FALSE]
        ELSE LET sorted == SortByCompletedAtDesc(completed_analyses)
             IN  [code |-> 200, error |-> "", total_count |-> Len(sorted),
                  analyses |-> SubSeq(sorted, 1, IF Len(sorted) < HistoryLimit
                                                 THEN Len(sorted) ELSE HistoryLimit),
                  is_sample |-> FALSE]

\* Lines 460-495: the reply made of the entries collected.  is_sample stands
\* for the key being there.
HistoryReply(completed_analyses) ==
    IF SortRaises(completed_analyses)
    THEN [code |-> 500, error |-> "Failed to retrieve history", total_count |-> 0,
          analyses |-> <<>>, is_sample |-> FALSE]
    ELSE IF completed_analyses = <<>>
    THEN [code |-> 200, error |-> "", total_count |-> Len(sample_analyses),
          analyses |-> sample_analyses, is_sample |-> TRUE]
    ELSE LET sorted == SortByCompletedAtDesc(completed_analyses)
         IN  [code |-> 200, error |-> "", total_count |-> Len(sorted),
              analyses |-> SubSeq(sorted, 1, IF Len(sorted) < HistoryLimit
                                             THEN Len(sorted) ELSE HistoryLimit),
              is_sample |-> FALSE]

\* analysis_history, lines 439-495, served with no other thread running in
\* between: the reply of /api/history.
analysis_history == HistoryReply(CompletedAnalyses(key_order))

\* Line 445, one turn of 'for analysis_id, data in analysis_progress.items()'
\* with the loop body, lines 446-457.  The iterator remembers the size the
\* dict had when the loop began and raises RuntimeError ('dictionary changed
\* size during iteration') when it finds another; the except clause of line
\* 488 answers 500.  At the end of the keys the reply is made.
HistoryVisit(h) ==
    IF Len(key_order) # h.used
    THEN [h EXCEPT !.pc = "done", !.completed_analyses = <<>>,
                   !.reply = [code |-> 500, error |-> "Failed to retrieve history",
                              total_count |-> 0, analyses |-> <<>>, is_sample |-> FALSE]]
    ELSE IF h.pos < Len(key_order)
    THEN LET id == key_order[h.pos + 1]
             data == analysis_progress[id]
         IN  [h EXCEPT !.pos = @ + 1,
                       !.completed_analyses =
                           IF DictGet(data, "status", "") = "completed"
                           THEN Append(@, HistoryEntry(id, data)) ELSE @]
    ELSE [h EXCEPT !.pc = "done", !.completed_analyses = <<>>,
                   !.reply = HistoryReply(h.completed_analyses)]

\* Lines 443-445: a request of /api/history begins its loop and makes the
\* first turn.  Other threads run between the turns of the loop, whose body
\* makes calls.
HistoryBegin ==
    /\ history_request.pc = "idle"
    /\ history_request' = HistoryVisit([history_request EXCEPT !.pc = "iterating",
                                                                !.used = Len(key_order)])
    /\ UNCHANGED <<clock, ta_graph, openai_key, analysis_progress, key_order, pc, local,
                   analysis_thread, result_queue, total_timeout, call>>

\* The next turn of the loop.
HistoryNext ==
    /\ history_request.pc = "iterating"
    /\ history_request' = HistoryVisit(history_request)
    /\ UNCHANGED <<clock, ta_graph, openai_key, analysis_progress, key_order, pc, local,
                   analysis_thread, result_queue, total_timeout, call>>

\* A client asks for the history; the endpoint only reads.
QueryHistory ==
    /\ analysis_history.code \in {200, 500}
    /\ UNCHANGED vars

RequestStep(t) ==
    \/ Unavailable(t)
    \/ \E sym \in Symbols, d \in Dates : Submit(t, sym, d)
    \/ ProgressStep(t)
    \/ CheckKey(t)
    \/ KeyFailedStatus(t)
    \/ KeyFailedReturn(t)
    \/ Poll(t)
    \/ LoopExit(t)
    \/ AfterLoop(t)
    \/ TimeoutStatus(t)
    \/ TimeoutReturn(t)
    \/ NoResultStatus(t)
    \/ NoResultReturn(t)
    \/ CompletedStatus(t)
    \/ CompletedProgress(t)
    \/ CompletedAt(t)
    \/ CompletedMessage(t)
    \/ StoreResult(t)
    \/ StoreDecisionReturn(t)

ExecutorStep(t) ==
    \/ \E ret \in PropagateReturns : RunAnalysisSuccess(t, ret)
    \/ \E e \in PropagateErrors : RunAnalysisError(t, e)
    \/ RunAnalysisAbort(t)
    \/ ThreadExit(t)

Next ==
    \/ \E t \in Requests : RequestStep(t) \/ ExecutorStep(t)
    \/ \E id \in JobIds : QueryProgress(id)
    \/ QueryAll
    \/ QueryHistory

Spec == Init /\ [][Next]_vars

\* One request alone, its handler thread always given its turn: a sleep, a
\* join with a timeout and a store all return.  Nothing is assumed of the
\* executor thread, whose propagate may never return.
NextSolo ==
    \/ RequestStep(1)
    \/ ExecutorStep(1)
    \/ \E id \in JobIds : QueryProgress(id)
    \/ QueryAll
    \/ QueryHistory

InitSolo == Start(MaxPollsSolo * check_interval)

\* The requests of /api/analyze one after the other, and a request of
\* /api/history served beside them, turn by turn of its loop.
NextEnum ==
    \/ \E t \in Requests :
           \/ (\A u \in Requests : u < t => pc[u] = "done") /\ RequestStep(t)
           \/ ExecutorStep(t)
    \/ HistoryBegin
    \/ HistoryNext

SpecEnum == Init /\ [][NextEnum]_vars

(***************************************************************************)
(* The pure functions of the module, applied to inputs of bounded size.    *)
(***************************************************************************)
DecisionTokens == {MARKER, ":", "\n", " ", "BUY"}
Texts == UNION {[1..n -> DecisionTokens] : n \in 0..MaxTextLen}

\* Values of decision: None, texts, messages with a content of any kind,
\* lists and dicts.
DecisionInputs ==
    {PyNone, PyList(<<>>), PyList(<<PyStr(<<"BUY">>)>>), PyDict(<<>>)}
    \cup {PyStr(s) : s \in Texts}
    \cup {PyObj(PyStr(s)) : s \in Texts}
    \cup {PyObj(c) : c \in {PyNone, PyObj(PyNone), PyList(<<>>),
                            PyList(<<PyStr(<<MARKER>>)>>), PyList(<<PyStr(<<"BUY">>)>>),
                            PyDict(<<>>), PyDict([k \in {MARKER} |-> PyNone])}}

\* A key that a dict does not have.
Absent == [kind |-> "absent"]

\* The dict with those of the three keys that are given a value.
StateDict(messages, market_report, investment_debate_state) ==
    LET val == [messages |-> messages, market_report |-> market_report,
                investment_debate_state |-> investment_debate_state]
    IN  PyDict([k \in {x \in DOMAIN val : val[x] # Absent} |-> val[k]])

\* Values of result: None, texts, messages, lists, and final states with
\* messages, a report and a debate state of several kinds.
ResultInputs ==
    {PyNone, PyStr(<<>>), PyStr(<<"market up">>), PyObj(PyStr(<<"analyst note">>)),
     PyObj(PyNone), PyList(<<>>), PyList(<<PyStr(<<"market up">>)>>), PyDict(<<>>)}
    \cup {StateDict(m, r, d) :
             m \in {Absent, PyNone, PyList(<<>>),
                    PyList(<<PyObj(PyStr(<<"analyst note">>))>>),
                    PyList(<<PyObj(PyStr(<<"analyst note">>)), PyObj(PyNone)>>),
                    PyList(<<PyDict([content |-> PyStr(<<"tool call">>)])>>),
                    PyList(<<PyDict([content |-> PyList(<<>>)])>>),
                    PyList(<<PyStr(<<"analyst note">>)>>),
                    PyObj(PyNone), PyStr(<<"analyst note">>)},
             r \in {Absent, PyStr(<<>>), PyStr(<<"market up">>), PyList(<<PyNone>>)},
             d \in {Absent, PyStr(<<"HOLD">>),
                    PyDict([judge_decision |-> PyStr(<<"HOLD">>)])}}

Called(fn, arg, ret) ==
    /\ call = NoCall
    /\ call' = [fn |-> fn, arg |-> arg, ret |-> ret]
    /\ UNCHANGED <<clock, ta_graph, openai_key, analysis_progress, key_order, pc, local,
                   analysis_thread, result_queue, total_timeout, history_request>>

CallCleanDecision ==
    \E decision \in DecisionInputs :
        Called("clean_decision_result", <<decision>>, <<clean_decision_result(decision)>>)

CallCleanResult ==
    \E result \in ResultInputs :
        Called("clean_analysis_result", <<result>>, <<clean_analysis_result(result)>>)

\* Line 221 at two instants, for one symbol and date.
CallAnalysisId ==
    \E sym \in Symbols, d \in Dates, now1 \in 0..MaxInstant, now2 \in 0..MaxInstant :
        Called("analysis_id", <<sym, d, now1, now2>>,
               <<AnalysisId(sym, d, now1), AnalysisId(sym, d, now2)>>)

NextCalls ==
    \/ CallCleanDecision
    \/ CallCleanResult
    \/ CallAnalysisId

SpecCalls == Init /\ [][NextCalls]_vars

\* The requests while no analysis ends: the handlers wait out a budget of
\* several polls and time out; keys may also be refused.
SlowStep(t) ==
    \/ Unavailable(t)
    \/ \E sym \in Symbols, d \in Dates : Submit(t, sym, d)
    \/ ProgressStep(t)
    \/ CheckKey(t)
    \/ KeyFailedStatus(t)
    \/ KeyFailedReturn(t)
    \/ Poll(t)
    \/ LoopExit(t)
    \/ AfterLoop(t)
    \/ TimeoutStatus(t)
    \/ TimeoutReturn(t)

NextSlow == \E t \in Requests : SlowStep(t)

SpecSlow == InitSolo /\ [][NextSlow]_vars

SpecSolo == InitSolo /\ [][NextSolo]_vars /\ WF_vars(RequestStep(1))

(***************************************************************************)
(* Properties.                                                             *)
(***************************************************************************)
Terminal == {"completed", "failed", "timeout"}

\* Position of a status in starting -> analyzing -> terminal.
Rank(st) == CASE st = "starting" -> 0 [] st = "analyzing" -> 1 [] OTHER -> 2

\* d[k] if the key is there, as a list of at most one element.
Field(d, k) == IF k \in DOMAIN d THEN <<d[k]>> ELSE <<>>

\* Request t has created a record.
Submitted(t) == local[t].analysis_id # NoId

\* No other request got the job id of request t.
Unshared(t) == \A u \in Requests \ {t} : local[u].analysis_id # local[t].analysis_id

\* The record stored under the job id of request t.
RecordOf(t) == analysis_progress[local[t].analysis_id]

\* The executor thread of request t takes a step of run_analysis.
ExecutorActs(t) ==
    /\ analysis_thread[t] \in {"running", "published"}
    /\ analysis_thread'[t] # analysis_thread[t]

IsPrefix(p, q) == Len(p) <= Len(q) /\ SubSeq(q, 1, Len(p)) = p

\* C1: the status stored under a job id only moves forward along
\* starting -> analyzing -> {completed, failed, timeout}, and a terminal
\* status is never left, whatever requests interleave.
C1_StatusOnlyForward ==
    [][\A id \in DOMAIN analysis_progress :
          LET old == analysis_progress[id]["status"]
              new == analysis_progress'[id]["status"]
          IN  /\ Rank(old) <= Rank(new)
              /\ old \in Terminal => new = old]_vars

\* C2: a submitted job reaches a terminal status; stated at the point where
\* nothing can change it any more: once the handler of a request that alone
\* holds its job id has returned, the record's status is terminal.
C2_TerminalWhenReturned ==
    \A t \in Requests :
        pc[t] = "done" /\ Submitted(t) /\ Unshared(t) => RecordOf(t)["status"] \in Terminal

\* The status a poll must report for the outcome a waiting caller received.
StatusForOutcome(code) ==
    CASE code = 200 -> "completed"
      [] code = 400 -> "failed"
      [] code = 500 -> "failed"
      [] code = 408 -> "timeout"

\* C3: once the synchronous submission has returned, a poll of its job id
\* reports the terminal status that matches the caller's outcome.
C3_PollMatchesOutcome ==
    \A t \in Requests :
        pc[t] = "done" /\ Submitted(t) /\ Unshared(t) =>
            LET polled == get_analysis_progress(local[t].analysis_id)
            IN  /\ polled.code = 200
                /\ polled.body["status"] = StatusForOutcome(local[t].response.code)

\* C4: on a record whose status is timeout, a step of the executor thread
\* (its late put, its end) leaves status, result and decision as they are.
C4_LateCompletionIgnored ==
    [][\A t \in Requests :
          (Submitted(t) /\ RecordOf(t)["status"] = "timeout" /\ ExecutorActs(t)) =>
              LET id == local[t].analysis_id
              IN  \A k \in {"status", "result", "decision"} :
                      Field(analysis_progress'[id], k) = Field(analysis_progress[id], k)]_vars

\* C4 witness: a request was answered with a timeout, its executor thread
\* has since ended with a success in its queue, and the record is still a
\* timeout without result.
C4_Witness ==
    \E t \in Requests :
        /\ pc[t] = "done" /\ local[t].response.code = 408
        /\ analysis_thread[t] = "finished"
        /\ result_queue[t] # <<>> /\ Head(result_queue[t]).status = "success"
        /\ RecordOf(t)["status"] = "timeout"
        /\ "result" \notin DOMAIN RecordOf(t)

\* C5: whatever a poll can see, a record with status completed has result
\* and decision, no error, progress 100, completed_at and duration.
C5_CompletedIsWhole ==
    \A id \in JobIds :
        LET polled == get_analysis_progress(id)
        IN  (polled.code = 200 /\ polled.body["status"] = "completed") =>
                /\ {"result", "decision", "completed_at", "duration_seconds"}
                       \subseteq DOMAIN polled.body
                /\ "error" \notin DOMAIN polled.body
                /\ polled.body["progress"] = 100

\* C6: after a submission has returned success, its record is completed with
\* progress 100, completed_at, duration = completed_at - started_at, and the
\* normalised result and decision, which the response carries too.
C6_SuccessRecorded ==
    \A t \in Requests :
        (pc[t] = "done" /\ local[t].response.code = 200) =>
            LET r == RecordOf(t)
            IN  /\ r["status"] = "completed"
                /\ r["progress"] = 100
                /\ {"completed_at", "duration_seconds", "result", "decision"} \subseteq DOMAIN r
                /\ r["duration_seconds"] =
                       fromisoformat(r["completed_at"]) - fromisoformat(r["started_at"])
                /\ \E ret \in PropagateReturns :
                       /\ r["result"] = clean_analysis_result(ret[1])
                       /\ r["decision"] = clean_decision_result(ret[2])
                /\ local[t].response.result = r["result"]
                /\ local[t].response.decision = r["decision"]

\* C7: result and decision are on a record only if it is completed, error
\* only if it is failed or timeout, and a failed or timeout record has its
\* error.
C7_OutcomeFieldsByStatus ==
    \A id \in DOMAIN analysis_progress :
        LET r == analysis_progress[id]
        IN  /\ ("result" \in DOMAIN r \/ "decision" \in DOMAIN r) => r["status"] = "completed"
            /\ "error" \in DOMAIN r => r["status"] \in {"failed", "timeout"}
            /\ r["status"] \in {"failed", "timeout"} => "error" \in DOMAIN r

\* C8: the messages stored under a job id only grow by appending: after
\* every step the old list is a prefix of the new one.
C8_MessagesAppendOnly ==
    [][\A id \in DOMAIN analysis_progress :
          IsPrefix(analysis_progress[id]["messages"], analysis_progress'[id]["messages"])]_vars

\* C9: a submission whose job id is already in the registry fails with
\* DuplicateID and leaves the record that is there unchanged.
C9_DuplicateIdRejected ==
    [][\A t \in Requests :
          (pc[t] = "idle" /\ pc'[t] # "idle" /\ local'[t].analysis_id \in DOMAIN analysis_progress) =>
              /\ analysis_progress' = analysis_progress
              /\ pc'[t] = "done"
              /\ local'[t].response.error = "DuplicateID"]_vars

\* C10: the wait ends in a timeout only if the queue holds no outcome at the
\* moment the decision is taken.
C10_TimeoutOnlyIfNothingPublished ==
    [][\A t \in Requests :
          (pc[t] = "after_loop" /\ pc'[t] = "timeout") => result_queue[t] = <<>>]_vars

\* C11: the synchronous submission always returns.  The wait loop makes at
\* most total_timeout / check_interval polls, a handler that has returned
\* while its analysis was still running has returned a timeout, and every
\* request that has arrived returns, also when propagate never does.
C11_WaitAlwaysReturns ==
    /\ [](\A t \in Requests :
              pc[t] = "loop" =>
                  local[t].elapsed \div check_interval <= total_timeout \div check_interval)
    /\ [](\A t \in Requests :
              (pc[t] = "done" /\ analysis_thread[t] = "running") =>
                  local[t].response.code = 408)
    /\ \A t \in Requests : (pc[t] # "idle") ~> (pc[t] = "done")

\* C11 witness: a request has used up its polls and returned a timeout while
\* its analysis is still running.
C11_Witness ==
    \E t \in Requests :
        /\ pc[t] = "done" /\ local[t].response.code = 408
        /\ analysis_thread[t] = "running"
        /\ RecordOf(t)["status"] = "timeout"

\* Every request that got the job id of request t has returned.
Released(t) == \A u \in Requests : local[u].analysis_id = local[t].analysis_id => pc[u] = "done"

\* C12: with the key missing or the placeholder, no executor thread is ever
\* started, a submission returns the configuration error, and once the
\* handlers working under a job id have returned its record is terminal.
C12_NoThreadWithoutKey ==
    openai_key \in {"", "test_key_demo_only"} =>
        \A t \in Requests :
            /\ analysis_thread[t] = "unstarted"
            /\ result_queue[t] = <<>>
            /\ (pc[t] = "done" /\ Submitted(t)) =>
                   /\ local[t].response.code = 400
                   /\ local[t].response.error = "Configuration error"
            /\ (Submitted(t) /\ Released(t)) => RecordOf(t)["status"] \in Terminal

\* C12 witness: with the placeholder key a submission has returned the
\* configuration error, its record is failed and no thread was started.
C12_Witness ==
    /\ openai_key = "test_key_demo_only"
    /\ \E t \in Requests :
           /\ pc[t] = "done" /\ local[t].response.code = 400
           /\ RecordOf(t)["status"] = "failed"
           /\ analysis_thread[t] = "unstarted"

\* C13: completed_at and the duration are set exactly once per record, at
\* the transition into a terminal status, whichever it is: after every step
\* a record has them if and only if its status is terminal, and once set
\* they do not change.
C13_CompletedAtOnceAtTerminal ==
    [][\A id \in DOMAIN analysis_progress' :
          LET new == analysis_progress'[id]
          IN  /\ ("completed_at" \in DOMAIN new) <=> (new["status"] \in Terminal)
              /\ ("completed_at" \in DOMAIN new) <=> ("duration_seconds" \in DOMAIN new)
              /\ (id \in DOMAIN analysis_progress
                      /\ "completed_at" \in DOMAIN analysis_progress[id]) =>
                     /\ Field(new, "completed_at") = <<analysis_progress[id]["completed_at"]>>
                     /\ Field(new, "duration_seconds")
                            = Field(analysis_progress[id], "duration_seconds")]_vars

\* C14: from one state to the next the progress of a record that is and
\* stays starting or analyzing does not decrease, and a record that is
\* failed or timeout after a step has the progress it had before it.
C14_ProgressMonotone ==
    [][\A id \in DOMAIN analysis_progress :
          LET old == analysis_progress[id]
              new == analysis_progress'[id]
          IN  /\ (old["status"] \in {"starting", "analyzing"}
                      /\ new["status"] \in {"starting", "analyzing"}) =>
                     new["progress"] >= old["progress"]
              /\ new["status"] \in {"failed", "timeout"} =>
                     new["progress"] = old["progress"]]_vars

\* C15: in every reachable state a record with progress 100 has status
\* completed.
C15_FullProgressIsCompleted ==
    \A id \in DOMAIN analysis_progress :
        analysis_progress[id]["progress"] = 100 => analysis_progress[id]["status"] = "completed"

\* C16: the queue of an executor thread gets at most one entry over the
\* thread's lifetime, a success or an error, and is read at most once.  A
\* put is made by the running thread and is its last step but the exit, a
\* thread that has put or ended never runs again, the queue never holds more
\* than one entry, and an entry is taken only by line 322, which a handler
\* passes once.
C16_ChannelFiresOnce ==
    [][\A t \in Requests :
          /\ Len(result_queue'[t]) <= 1
          /\ Len(result_queue'[t]) > Len(result_queue[t]) =>
                 /\ analysis_thread[t] = "running"
                 /\ analysis_thread'[t] = "published"
                 /\ result_queue[t] = <<>>
                 /\ result_queue'[t][1].status \in {"success", "error"}
          /\ analysis_thread[t] \in {"published", "finished"} =>
                 analysis_thread'[t] \in {"published", "finished"}
          /\ analysis_thread[t] = "published" => Len(result_queue'[t]) <= Len(result_queue[t])
          /\ Len(result_queue'[t]) < Len(result_queue[t]) =>
                 /\ pc[t] = "after_loop"
                 /\ pc'[t] \in {"completed", "done"}
          /\ pc[t] \in {"completed", "completed_progress", "completed_at", "completed_msg",
                         "store_result", "store_decision", "timeout", "timeout_msg",
                         "no_result", "no_result_msg", "done"} =>
                 pc'[t] # "after_loop"]_vars

\* C16 witness: a thread has put its one entry and ended, the handler has
\* taken it and returned success, and the queue is empty.
C16_Witness ==
    \E t \in Requests :
        /\ analysis_thread[t] = "finished"
        /\ result_queue[t] = <<>>
        /\ pc[t] = "done" /\ local[t].response.code = 200

\* The job ids whose record has status completed.
CompletedIds == {id \in DOMAIN analysis_progress : analysis_progress[id]["status"] = "completed"}

\* C17: when there are completed records, the history is exactly these
\* records, newest completed_at first, cut to the first HistoryLimit: every
\* entry is a completed record, none comes twice, there are as many as there
\* are completed records (at most HistoryLimit), an entry is never older than
\* the one after it, and a record left out is not newer than one listed.
C17_HistoryCompletedNewestFirst ==
    CompletedIds # {} =>
        LET h == analysis_history
            n == Len(h.analyses)
            listed == {h.analyses[i].analysis_id : i \in 1..n}
        IN  /\ h.code = 200
            /\ listed \subseteq CompletedIds
            /\ Cardinality(listed) = n
            /\ n = IF Cardinality(CompletedIds) < HistoryLimit
                   THEN Cardinality(CompletedIds) ELSE HistoryLimit
            /\ \A i \in 1..n :
                   h.analyses[i].completed_at
                       = DictGet(analysis_progress[h.analyses[i].analysis_id],
                                 "completed_at", NoTime)
            /\ \A i, j \in 1..n :
                   i < j => fromisoformat(h.analyses[i].completed_at)
                              >= fromisoformat(h.analyses[j].completed_at)
            /\ \A id \in CompletedIds \ listed : \A i \in 1..n :
                   fromisoformat(analysis_progress[id]["completed_at"])
                       <= fromisoformat(h.analyses[i].completed_at)

\* C18: the history holds the sample exactly when no record is completed;
\* it is then one entry, which is no record of the registry, under the flag
\* is_sample.  With a completed record there is no flag and every entry is
\* a record of the registry.
C18_SampleOnlyWhenNothingCompleted ==
    LET h == analysis_history
    IN  /\ h.is_sample <=> (CompletedIds = {})
        /\ h.is_sample =>
               /\ h.code = 200
               /\ Len(h.analyses) = 1
               /\ h.analyses[1].analysis_id \notin DOMAIN analysis_progress
        /\ CompletedIds = {} => Len(h.analyses) = 1 /\ h.analyses = sample_analyses
        /\ ~h.is_sample =>
               \A i \in 1..Len(h.analyses) :
                   /\ h.analyses[i].analysis_id \in DOMAIN analysis_progress
                   /\ h.analyses[i].analysis_id \in CompletedIds

\* C18 witness: the first record has just become completed, beside another
\* that is not; the history holds that one record and no flag.
C18_Witness ==
    /\ Cardinality(CompletedIds) = 1
    /\ Cardinality(DOMAIN analysis_progress) = 2
    /\ ~analysis_history.is_sample
    /\ Len(analysis_history.analyses) = 1
    /\ analysis_history.analyses[1].analysis_id \in CompletedIds

\* C19: a poll of a job id that is not in the registry is answered with
\* 404 'Analysis not found' and no record, and the poll leaves the registry
\* as it is: no record is made for the id and none is changed.
C19_UnknownIdNotFound ==
    [][\A id \in JobIds :
          id \notin DOMAIN analysis_progress =>
              /\ get_analysis_progress(id).code = 404
              /\ get_analysis_progress(id).error = "Analysis not found"
              /\ "body" \notin DOMAIN get_analysis_progress(id)
              /\ QueryProgress(id) =>
                     /\ analysis_progress' = analysis_progress
                     /\ key_order' = key_order]_vars

\* C19 witness: the registry holds a record, and a poll of another job id is
\* answered with 404.
C19_Witness ==
    \E id \in JobIds :
        /\ id \notin DOMAIN analysis_progress
        /\ DOMAIN analysis_progress # {}
        /\ get_analysis_progress(id).code = 404

\* C20: no step removes a job id from the registry, and the list of all
\* analyses names every id that was inserted, once, in the order of
\* insertion: after every step the registry holds the ids it held, the old
\* list is a prefix of the new one, and the list names exactly the ids of
\* the registry.
C20_RegistryOnlyGrows ==
    [][/\ DOMAIN analysis_progress \subseteq DOMAIN analysis_progress'
       /\ IsPrefix(list_active_analyses.active_analyses,
                   list_active_analyses'.active_analyses)
       /\ LET listed == list_active_analyses'.active_analyses
          IN  /\ {listed[i] : i \in 1..Len(listed)} = DOMAIN analysis_progress'
              /\ Len(listed) = Cardinality(DOMAIN analysis_progress')
              /\ list_active_analyses'.total_count = Len(listed)]_vars

\* C20 witness: two ids were inserted, the first record has since become
\* terminal and its request has returned, and the list names both, the first
\* inserted first.
C20_Witness ==
    LET listed == list_active_analyses.active_analyses
    IN  /\ Len(listed) = 2
        /\ listed[1] # listed[2]
        /\ analysis_progress[listed[1]]["status"] \in Terminal
        /\ \E t \in Requests : local[t].analysis_id = listed[1] /\ pc[t] = "done"
        /\ fromisoformat(analysis_progress[listed[1]]["started_at"])
               < fromisoformat(analysis_progress[listed[2]]["started_at"])

\* C21: an enumeration of the registry succeeds also when a submission
\* inserts a record while it is under way: the turn of the loop of
\* /api/history that finds a record inserted since the loop began does not
\* end the request with an error.
C21_EnumerationSucceeds ==
    [][(/\ history_request.pc = "iterating"
        /\ Len(key_order) # history_request.used
        /\ history_request'.pc = "done") =>
           history_request'.reply.code = 200]_vars

\* C22: the submission that launches the executor returns at once: the step
\* that starts the thread also ends the request, with the job id and the
\* status 'started', without waiting for the analysis.
C22_StartedWithoutWaiting ==
    [][\A t \in Requests :
          (analysis_thread[t] = "unstarted" /\ analysis_thread'[t] = "running") =>
              /\ pc'[t] = "done"
              /\ local'[t].response.status = "started"
              /\ local'[t].response.analysis_id = local[t].analysis_id]_vars

\* The line of a text in which the marker first occurs.
MarkerLine(text) ==
    LET first == CHOOSE i \in 1..Len(text) :
                     text[i] = MARKER /\ \A j \in 1..(i - 1) : text[j] # MARKER
        breaks == {i \in 1..Len(text) : text[i] = "\n"}
        from == CHOOSE i \in 1..first :
                    /\ \A j \in i..first : j \notin breaks
                    /\ i = 1 \/ (i - 1) \in breaks
        to == CHOOSE i \in first..Len(text) :
                  /\ \A j \in first..i : j \notin breaks
                  /\ i = Len(text) \/ (i + 1) \in breaks
    IN  SubSeq(text, from, to)

\* What follows the last colon of a line; the line itself if it has none.
AfterLastColon(line) ==
    LET colons == {i \in 1..Len(line) : line[i] = ":"}
    IN  IF colons = {} THEN line
        ELSE SubSeq(line, (CHOOSE i \in colons : \A j \in colons : j <= i) + 1, Len(line))

\* A text from its first to its last token that is not whitespace.
Trimmed(s) ==
    LET inked == {i \in 1..Len(s) : s[i] \notin Whitespace}
    IN  IF inked = {} THEN <<>>
        ELSE SubSeq(s, CHOOSE i \in inked : \A j \in inked : i <= j,
                       CHOOSE i \in inked : \A j \in inked : j <= i)

ResultStepFails(result) ==
    /\ result.kind = "dict"
    /\ "messages" \in DOMAIN result.items
    /\ LET messages == result.items["messages"]
       IN  \/ messages.kind = "obj"
           \/ /\ messages.kind = "list"
              /\ \E i \in 1..Len(messages.elems) :
                     LET msg == messages.elems[i]
                     IN  \/ msg.kind = "obj" /\ msg.content.kind # "str"
                         \/ /\ msg.kind = "dict"
                            /\ "content" \in DOMAIN msg.items
                            /\ msg.items["content"].kind # "str"

\* The inputs on which a step inside clean_decision_result fails: a content
\* that cannot be searched, or one that is no text and holds the marker.
DecisionStepFails(decision) ==
    /\ decision.kind = "obj"
    /\ \/ decision.content.kind \in {"none", "obj"}
       \/ decision.content = PyList(<<PyStr(<<MARKER>>)>>)
       \/ decision.content.kind = "dict" /\ MARKER \in DOMAIN decision.content.items

\* C24: clean_analysis_result and clean_decision_result never raise to their
\* caller, and on an input on which a step inside them fails they return
\* str() of the input.
C24_NormalisersNeverRaise ==
    /\ call.fn = "clean_analysis_result" =>
           /\ call.ret[1] # Raised
           /\ ResultStepFails(call.arg[1]) => call.ret[1] = PyStr(PyToStr(call.arg[1]))
    /\ call.fn = "clean_decision_result" =>
           /\ call.ret[1] # Raised
           /\ DecisionStepFails(call.arg[1]) => call.ret[1] = PyStr(PyToStr(call.arg[1]))

\* A final state with a message whose content is None, which join refuses,
\* has been normalised to its printed form.
C24_Witness ==
    /\ call.fn = "clean_analysis_result"
    /\ ResultStepFails(call.arg[1])
    /\ call.arg[1].items["messages"].kind = "list"
    /\ call.ret = <<PyStr(<<"{...}">>)>>

\* C25: when propagate has raised and run_analysis has put ('error', message)
\* into the queue, the handler, once out of the wait loop, returns a failure
\* that carries that message.
C25_ErrorReachesCaller ==
    [][\A t \in Requests :
          (/\ pc[t] = "after_loop"
           /\ pc'[t] # "after_loop"
           /\ result_queue[t] # <<>>
           /\ Head(result_queue[t]).status = "error") =>
              /\ pc'[t] = "done"
              /\ local'[t].response.code = 500
              /\ local'[t].response.message = Head(result_queue[t]).result.text]_vars

\* The elapsed values of the heartbeats among the messages of a record.
Heartbeats(record) ==
    LET beats == SelectSeq(record["messages"],
                           LAMBDA m : m.text = "Analysis still running...")
    IN  [k \in 1..Len(beats) |-> beats[k].elapsed]

\* C26: the heartbeats of a job carry multiples of check_interval that rise
\* strictly and are all below total_timeout, and a job has at most
\* total_timeout / check_interval - 1 of them.
C26_HeartbeatsCountPolls ==
    \A id \in DOMAIN analysis_progress :
        LET beats == Heartbeats(analysis_progress[id])
        IN  /\ Len(beats) <= (total_timeout \div check_interval) - 1
            /\ \A k \in 1..Len(beats) :
                   /\ beats[k] % check_interval = 0
                   /\ 0 < beats[k] /\ beats[k] < total_timeout
                   /\ k > 1 => beats[k - 1] < beats[k]

\* C27: the job ids made for one symbol and date at two instants that differ
\* once truncated to seconds, on the same day or not, are distinct.
C27_IdsDifferAcrossSeconds ==
    call.fn = "analysis_id" =>
        LET now1 == call.arg[3]
            now2 == call.arg[4]
        IN  (now1 \div TicksPerSecond) # (now2 \div TicksPerSecond) =>
                call.ret[1] # call.ret[2]

\* C28: a step of an executor thread leaves the registry, every record in it
\* and the queues of the other requests as they are, and whenever a record
\* or the registry changes, a handler that has not yet returned has taken
\* the step.
C28_ExecutorOnlyPuts ==
    [][/\ \A t \in Requests :
              ExecutorActs(t) =>
                  /\ analysis_progress' = analysis_progress
                  /\ key_order' = key_order
                  /\ \A u \in Requests \ {t} : result_queue'[u] = result_queue[u]
       /\ analysis_progress' # analysis_progress =>
              \E t \in Requests :
                  /\ pc[t] # "done"
                  /\ pc'[t] # pc[t] \/ local'[t] # local[t]
                  /\ analysis_thread' = analysis_thread]_vars

\* C28 witness: an executor thread has put its error while its handler is
\* still in the wait loop, and the record is still being analysed.
C28_Witness ==
    \E t \in Requests :
        /\ analysis_thread[t] = "published"
        /\ Head(result_queue[t]).status = "error"
        /\ pc[t] = "loop"
        /\ RecordOf(t)["status"] = "analyzing"

\* C29: a step of the handler of one job leaves the records under all other
\* ids as they are; the outcome a handler works with is the one its own
\* executor thread put, and the result it stores under its id is that
\* outcome's, normalised.
C29_JobsIsolated ==
    [][\A t \in Requests :
          (pc'[t] # pc[t] \/ local'[t] # local[t]) =>
              /\ \A id \in DOMAIN analysis_progress \ {local'[t].analysis_id} :
                     /\ id \in DOMAIN analysis_progress'
                     /\ analysis_progress'[id] = analysis_progress[id]
              /\ pc'[t] = "completed" =>
                     /\ result_queue[t] # <<>>
                     /\ local'[t].result = Head(result_queue[t]).result
                     /\ local'[t].decision = Head(result_queue[t]).decision
              /\ pc[t] = "store_result" =>
                     analysis_progress'[local[t].analysis_id]["result"] =
                         clean_analysis_result(local[t].result)]_vars

\* C29 witness: two jobs with different ids, one completed with its result
\* stored, the other timed out.
C29_Witness ==
    \E t \in Requests, u \in Requests :
        /\ Submitted(t) /\ Submitted(u)
        /\ local[t].analysis_id # local[u].analysis_id
        /\ RecordOf(t)["status"] = "completed"
        /\ "result" \in DOMAIN RecordOf(t)
        /\ RecordOf(u)["status"] = "timeout"

\* The texts of the messages that end a job's log.
TerminalTexts ==
    {"Analysis completed successfully!", "Analysis timed out after 8 minutes",
     "Analysis failed unexpectedly", "Invalid OpenAI API key"}

\* The start message and the four stage messages, in order.
OpeningTexts ==
    <<"Starting multi-agent analysis...", "Initializing analysis for",
      "Fundamental analyst working...", "Technical analysis in progress...",
      "Sentiment analysis running...">>

\* C30: the messages of a job that shares its id with no other request are,
\* at every moment, a beginning of: the start message, the four stage
\* messages in order, any number of heartbeats, at most one terminal
\* message; heartbeats are only on a record whose executor thread was started.
C30_MessagesShape ==
    \A t \in Requests :
        (Submitted(t) /\ Unshared(t)) =>
            LET texts == [k \in 1..Len(RecordOf(t)["messages"]) |->
                             RecordOf(t)["messages"][k].text]
                n == Len(texts)
                opening == Len(OpeningTexts)
            IN  /\ \A k \in 1..n :
                       \/ k <= opening /\ texts[k] = OpeningTexts[k]
                       \/ k > opening /\ texts[k] = "Analysis still running..."
                       \/ k > opening /\ k = n /\ texts[k] \in TerminalTexts
                /\ (\E k \in 1..n : texts[k] = "Analysis still running...") =>
                       analysis_thread[t] # "unstarted"

\* C30 witness: a job alone on its record has timed out with the five
\* opening messages, two heartbeats and the timeout message.
C30_Witness ==
    /\ pc[1] = "done"
    /\ local[1].response.code = 408
    /\ Len(RecordOf(1)["messages"]) = 8
    /\ Heartbeats(RecordOf(1)) = <<15, 30>>
    /\ RecordOf(1)["messages"][8].text = "Analysis timed out after 8 minutes"

====
